---- MODULE Spec2Model ----
(***************************************************************************)
(* Time-tracker: the notification scheduler (TimeTrackingService), the     *)
(* localStorage repository (StorageService) and the Zustand store that     *)
(* drives them (useTimeTrackerStore).                                      *)
(*                                                                         *)
(* Times are milliseconds since the epoch, as Date.getTime() returns them. *)
(* The wall clock is read in UTC.  A nullable Date or timer handle is NULL,*)
(* a nullable object is a sequence of length 0 or 1.                       *)
(***************************************************************************)
EXTENDS Integers, Sequences, FiniteSets, TLC

\* ------------------------------------------------------------------ bounds
\* the clock advances in steps of ClockStep ms, MaxSteps times at most
ClockStep == 500
MaxSteps == 6
\* at most MaxActs activities are kept in the stored log
MaxActs == 2
\* at most MaxQuiet quiet-time windows are configured
MaxQuiet == 1
\* a timer that is due fires before the clock is MaxLate ms past its due time
MaxLate == 500
\* at most MaxListeners listeners are registered with the service
MaxListeners == 3

\* --------------------------------------------------------- program constants
PollPeriod == 1000
MinInterval == 1000
DefaultInterval == 15000
StaleMs == 3600000

NULL == -1
NoErr == ""

SecMs == 1000
MinuteMs == 60 * SecMs
HourMs == 60 * MinuteMs
DayMs == 24 * HourMs

\* the instant the model's clock starts at: a Sunday, 00:00:58.000 UTC
StartNow == 3 * DayMs + 58 * SecMs
MaxNow == StartNow + MaxSteps * ClockStep

\* ------------------------------------------------------------ Date and text
\* Date.prototype.toISOString: the fields of "YYYY-MM-DDTHH:mm:ss.sssZ"
\* (the calendar date is kept as the day number)
toISOString(t) ==
  [date |-> t \div DayMs,
   hh   |-> (t % DayMs) \div HourMs,
   mm   |-> (t % HourMs) \div MinuteMs,
   ss   |-> (t % MinuteMs) \div SecMs,
   sss  |-> t % SecMs]

\* new Date(isoString).getTime()
parseISO(s) ==
  s.date * DayMs + s.hh * HourMs + s.mm * MinuteMs + s.ss * SecMs + s.sss

getDay(t) == ((t \div DayMs) + 4) % 7
getHours(t) == (t % DayMs) \div HourMs
getMinutes(t) == (t % HourMs) \div MinuteMs

\* a string is the sequence of its character codes; '0' is 48 and ':' is 58
Colon == 58
Digit(d) == 48 + d
\* String(n).padStart(2, '0') for 0 <= n <= 99
padStart2(n) == IF n < 10 THEN <<Digit(0), Digit(n)>>
                ELSE <<Digit(n \div 10), Digit(n % 10)>>
\* `${HH}:${MM}`
HHMM(h, m) == padStart2(h) \o <<Colon>> \o padStart2(m)

\* a <= b on JavaScript strings: code units are compared left to right and a
\* proper prefix is the smaller string
StrLeq(a, b) ==
  LET n == IF Len(a) < Len(b) THEN Len(a) ELSE Len(b)
      diff == {i \in 1..n : a[i] # b[i]}
  IN IF diff = {} THEN Len(a) <= Len(b)
     ELSE LET i == CHOOSE j \in diff : \A k \in diff : j <= k
          IN a[i] < b[i]

Sunday == 0
AllDays == 0..6

\* ------------------------------------------------------------------- state
VARIABLES
  now,        \* the wall clock, new Date().getTime()
  quotaFull,  \* localStorage.setItem throws (quota exceeded)
  svc,        \* the TimeTrackingService singleton's fields
  ls,         \* localStorage: the three timetracker_* keys
  ui,         \* the useTimeTrackerStore state
  timers,     \* the window's live setInterval timers: [id, due]
  last,       \* what the last operation was and what it put out
  hist,       \* history of the current session (observation only)
  acted       \* the user has made a gesture at this instant

vars == <<now, quotaFull, svc, ls, ui, timers, last, hist, acted>>

None == <<>>
Some(x) == <<x>>

\* the QuietTime the settings dialog creates
\* src/src/components/SettingsModal.tsx handleAddQuietTime
NewQuietTime ==
  [startTime |-> HHMM(22, 0), endTime |-> HHMM(8, 0),
   days |-> AllDays, enabled |-> TRUE]

DEFAULT_SETTINGS ==
  [notificationInterval |-> DefaultInterval, quietTimes |-> <<>>]

\* the field initialisers of TimeTrackingService
NewService ==
  [timerId |-> NULL,
   sessionStartTime |-> NULL,
   lastNotificationTime |-> NULL,
   notificationInterval |-> DefaultInterval,
   listeners |-> <<>>,
   isQuietMode |-> FALSE,
   quietTimes |-> <<>>]

\* the initial state of the store
NewStore ==
  [isTracking |-> FALSE,
   isQuietMode |-> FALSE,
   isStopping |-> FALSE,
   showActivityModal |-> FALSE,
   settings |-> DEFAULT_SETTINGS]

\* The world an operation runs in and what it puts out: the events it
\* emitted, the listener calls they led to, the number of Notifier.show
\* calls, the error it threw, the activity it returned.
World(n, f, s, l, u, t) ==
  [now |-> n, full |-> f, svc |-> s, ls |-> l, ui |-> u, timers |-> t,
   events |-> <<>>, calls |-> <<>>, shows |-> 0, err |-> NoErr, act |-> None]

Throw(w, e) == [w EXCEPT !.err = e]


\* ---------------------------------------------------------- StorageService
\* JSON.stringify(activities, replacer): every Date becomes its ISO string
SerializeActivity(a) ==
  [a EXCEPT !.startTime = toISOString(a.startTime),
            !.endTime = toISOString(a.endTime),
            !.createdAt = toISOString(a.createdAt)]

\* the map of loadActivities: ISO strings back to Date objects
ReviveActivity(a) ==
  [a EXCEPT !.startTime = parseISO(a.startTime),
            !.endTime = parseISO(a.endTime),
            !.createdAt = parseISO(a.createdAt)]

Storage_saveActivities(w, activities) ==
  IF w.full THEN Throw(w, "Failed to save activities")
  ELSE [w EXCEPT !.ls.activities =
          Some([i \in 1..Len(activities) |-> SerializeActivity(activities[i])]),
                 !.ls.torn = @ \ {"activities"}]

\* JSON.parse throws on a torn text: the catch returns []
Storage_loadActivities(w) ==
  IF w.ls.activities = None \/ "activities" \in w.ls.torn THEN <<>>
  ELSE LET parsed == w.ls.activities[1]
       IN [i \in 1..Len(parsed) |-> ReviveActivity(parsed[i])]

Storage_addActivity(w, activity) ==
  Storage_saveActivities(w, Append(Storage_loadActivities(w), activity))

Storage_saveSettings(w, settings) ==
  IF w.full THEN Throw(w, "Failed to save settings")
  ELSE [w EXCEPT !.ls.settings = Some(settings),
                 !.ls.torn = @ \ {"settings"}]

Storage_loadSettings(w) ==
  IF "settings" \in w.ls.torn THEN None ELSE w.ls.settings

\* a failed write is logged, not thrown
Storage_saveSession(w, start, lastNotification) ==
  IF w.full THEN w
  ELSE [w EXCEPT !.ls.session =
          Some([start |-> toISOString(start),
                lastNotification |-> toISOString(lastNotification)]),
                 !.ls.torn = @ \ {"session"}]

\* loadSession that lets the error of JSON.parse pass: the page is left with
\* what the text held
Storage_loadSession_uncaught(w) ==
  IF w.ls.session = None THEN None
  ELSE LET parsed == w.ls.session[1]
       IN Some([start |-> parseISO(parsed.start),
                lastNotification |-> parseISO(parsed.lastNotification)])

\* JSON.parse throws on a torn text: the catch returns null
Storage_loadSession(w) ==
  IF w.ls.session = None \/ "session" \in w.ls.torn THEN None
  ELSE LET parsed == w.ls.session[1]
       IN Some([start |-> parseISO(parsed.start),
                lastNotification |-> parseISO(parsed.lastNotification)])

Storage_clearSession(w) ==
  [w EXCEPT !.ls.session = None, !.ls.torn = @ \ {"session"}]

\* JSON.stringify({ activities, settings }): the text is kept as the value it
\* parses to, every Date as its ISO string (toJSON), settings null as None
exportData(w) ==
  LET activities == Storage_loadActivities(w)
  IN [activities |->
        Some([i \in 1..Len(activities) |-> SerializeActivity(activities[i])]),
      settings |-> Storage_loadSettings(w)]

\* importData that adds the imported activities to those already stored
importData_appends(w, jsonData) ==
  LET w1 == IF jsonData.activities # None
            THEN LET activities == jsonData.activities[1]
                     parsedActivities ==
                       [i \in 1..Len(activities) |-> ReviveActivity(activities[i])]
                 IN Storage_saveActivities(
                      w, Storage_loadActivities(w) \o parsedActivities)
            ELSE w
      w2 == IF w1.err = NoErr /\ jsonData.settings # None
            THEN Storage_saveSettings(w1, jsonData.settings[1])
            ELSE w1
  IN IF w2.err # NoErr THEN Throw(w2, "Failed to import data") ELSE w2

importData(w, jsonData) ==
  LET w1 == IF jsonData.activities # None
            THEN LET activities == jsonData.activities[1]
                     parsedActivities ==
                       [i \in 1..Len(activities) |-> ReviveActivity(activities[i])]
                 IN Storage_saveActivities(w, parsedActivities)
            ELSE w
      w2 == IF w1.err = NoErr /\ jsonData.settings # None
            THEN Storage_saveSettings(w1, jsonData.settings[1])
            ELSE w1
  IN IF w2.err # NoErr THEN Throw(w2, "Failed to import data") ELSE w2

\* ------------------------------------------------------ TimeTrackingService
getSessionInfo(w) ==
  [isActive |-> w.svc.timerId # NULL,
   startTime |-> w.svc.sessionStartTime,
   lastNotificationTime |-> w.svc.lastNotificationTime]

\* the listener the store registers in initialize()
StoreListener(w, type) ==
  IF type = "notification-due" THEN [w EXCEPT !.ui.showActivityModal = TRUE]
  ELSE IF type = "session-started" THEN [w EXCEPT !.ui.isTracking = TRUE]
  ELSE IF type = "session-stopped" THEN [w EXCEPT !.ui.isTracking = FALSE]
  ELSE w

\* Listeners are told apart by name: the store's, and two a client of the
\* service registers, one that returns and one that throws.
StoreName == "store"
ProbeName == "probe"
ThrowerName == "thrower"

\* the call listener(event)
RunListener(w, listener, type) ==
  LET w1 == [w EXCEPT !.calls =
               Append(@, [listener |-> listener, type |-> type])]
  IN IF listener = StoreName THEN StoreListener(w1, type)
     ELSE IF listener = ThrowerName THEN Throw(w1, "listener failed")
     ELSE w1

\* listeners.forEach over the array as it is when emit is called; with
\* caught, the call is wrapped in try/catch and the error only logged
RECURSIVE Deliver(_, _, _, _, _)
Deliver(w, type, listeners, i, caught) ==
  IF i > Len(listeners) THEN w
  ELSE LET w1 == RunListener(w, listeners[i], type)
       IN IF w1.err = w.err THEN Deliver(w1, type, listeners, i + 1, caught)
          ELSE IF caught
          THEN Deliver([w1 EXCEPT !.err = w.err], type, listeners, i + 1, caught)
          ELSE w1

\* emit without the try/catch around the listener call
emit_uncaught(w, type) ==
  Deliver([w EXCEPT !.events = Append(@, type)], type, w.svc.listeners, 1, FALSE)

emit(w, type) ==
  Deliver([w EXCEPT !.events = Append(@, type)], type, w.svc.listeners, 1, TRUE)

addEventListener(w, listener) ==
  [w EXCEPT !.svc.listeners = Append(@, listener)]

\* an unsubscribe handle that drops every listener
unsubscribe_all(w, listener) ==
  [w EXCEPT !.svc.listeners = <<>>]

\* the handle addEventListener returns: filter(l => l !== listener)
unsubscribe(w, listener) ==
  [w EXCEPT !.svc.listeners = SelectSeq(@, LAMBDA l : l # listener)]

\* window.setInterval(handler, PollPeriod): a fresh handle, first due one
\* period from now
NewTimerId(w) ==
  CHOOSE id \in 1..(Cardinality(w.timers) + 1) :
    \A t \in w.timers : t.id # id

setInterval(w, id) ==
  [w EXCEPT !.timers = @ \cup {[id |-> id, due |-> w.now + PollPeriod]}]

clearInterval(w, id) ==
  [w EXCEPT !.timers = {t \in @ : t.id # id}]

\* startTracking that sets lastNotificationTime one interval back, to have
\* the first poll fire a prompt
startTracking_primed(w) ==
  IF w.svc.timerId # NULL THEN w
  ELSE LET w1 == [w EXCEPT !.svc.sessionStartTime = w.now,
                           !.svc.lastNotificationTime =
                              w.now - w.svc.notificationInterval]
           w2 == Storage_saveSession(w1, w1.svc.sessionStartTime,
                                     w1.svc.lastNotificationTime)
           id == NewTimerId(w2)
           w3 == [setInterval(w2, id) EXCEPT !.svc.timerId = id]
       IN emit(w3, "session-started")

\* startTracking without its guard on timerId
startTracking_unguarded(w) ==
  LET w1 == [w EXCEPT !.svc.sessionStartTime = w.now,
                      !.svc.lastNotificationTime = w.now]
      w2 == Storage_saveSession(w1, w1.svc.sessionStartTime,
                                w1.svc.lastNotificationTime)
      id == NewTimerId(w2)
      w3 == [setInterval(w2, id) EXCEPT !.svc.timerId = id]
  IN emit(w3, "session-started")

startTracking(w) ==
  IF w.svc.timerId # NULL THEN w
  ELSE LET w1 == [w EXCEPT !.svc.sessionStartTime = w.now,
                           !.svc.lastNotificationTime = w.now]
           w2 == Storage_saveSession(w1, w1.svc.sessionStartTime,
                                     w1.svc.lastNotificationTime)
           id == NewTimerId(w2)
           w3 == [setInterval(w2, id) EXCEPT !.svc.timerId = id]
       IN emit(w3, "session-started")

\* stopTracking that leaves the stored session behind
stopTracking_unclearing(w) ==
  LET w1 == IF w.svc.timerId # NULL
            THEN [clearInterval(w, w.svc.timerId) EXCEPT !.svc.timerId = NULL]
            ELSE w
      w2 == [w1 EXCEPT !.svc.sessionStartTime = NULL,
                       !.svc.lastNotificationTime = NULL]
  IN emit(w2, "session-stopped")

\* stopTracking that forgets the timer handle without clearing the timer
stopTracking_leaks(w) ==
  LET w2 == [w EXCEPT !.svc.timerId = NULL,
                      !.svc.sessionStartTime = NULL,
                      !.svc.lastNotificationTime = NULL]
  IN emit(Storage_clearSession(w2), "session-stopped")

stopTracking(w) ==
  LET w1 == IF w.svc.timerId # NULL
            THEN [clearInterval(w, w.svc.timerId) EXCEPT !.svc.timerId = NULL]
            ELSE w
      w2 == [w1 EXCEPT !.svc.sessionStartTime = NULL,
                       !.svc.lastNotificationTime = NULL]
  IN emit(Storage_clearSession(w2), "session-stopped")

\* isInQuietTime that takes a window with startTime > endTime to run
\* across midnight
isInQuietTime_wraps(w) ==
  LET currentDay == getDay(w.now)
      currentTime == HHMM(getHours(w.now), getMinutes(w.now))
  IN \E i \in 1..Len(w.svc.quietTimes) :
       LET qt == w.svc.quietTimes[i]
       IN /\ qt.enabled
          /\ currentDay \in qt.days
          /\ IF StrLeq(qt.startTime, qt.endTime)
             THEN /\ StrLeq(qt.startTime, currentTime)
                  /\ StrLeq(currentTime, qt.endTime)
             ELSE \/ StrLeq(qt.startTime, currentTime)
                  \/ StrLeq(currentTime, qt.endTime)

isInQuietTime(w) ==
  LET currentDay == getDay(w.now)
      currentTime == HHMM(getHours(w.now), getMinutes(w.now))
  IN \E i \in 1..Len(w.svc.quietTimes) :
       LET qt == w.svc.quietTimes[i]
       IN /\ qt.enabled
          /\ currentDay \in qt.days
          /\ StrLeq(qt.startTime, currentTime)
          /\ StrLeq(currentTime, qt.endTime)

\* NotificationService.show has no await inside, so it runs to its end in
\* the caller's turn; the emit that follows the await runs as a microtask
\* before any other handler, so the whole of triggerNotification is one step
\* triggerNotification that leaves lastNotificationTime for the recorder
\* to advance
triggerNotification_keeps(w) ==
  LET w2 == IF w.svc.sessionStartTime # NULL
            THEN Storage_saveSession(w, w.svc.sessionStartTime,
                                     w.svc.lastNotificationTime)
            ELSE w
      w3 == [w2 EXCEPT !.shows = @ + 1]
  IN emit(w3, "notification-due")

triggerNotification(w) ==
  LET w1 == [w EXCEPT !.svc.lastNotificationTime = w.now]
      w2 == IF w1.svc.sessionStartTime # NULL
            THEN Storage_saveSession(w1, w1.svc.sessionStartTime,
                                     w1.svc.lastNotificationTime)
            ELSE w1
      w3 == [w2 EXCEPT !.shows = @ + 1]
  IN emit(w3, "notification-due")

\* checkForNotification with > for >=
checkForNotification_strict(w) ==
  IF w.svc.lastNotificationTime = NULL THEN w
  ELSE IF isInQuietTime(w) THEN w
  ELSE IF w.svc.isQuietMode THEN w
  ELSE LET timeSinceLastNotification == w.now - w.svc.lastNotificationTime
       IN IF timeSinceLastNotification > w.svc.notificationInterval
          THEN triggerNotification(w)
          ELSE w

\* checkForNotification that restarts the interval on a suppressed poll
checkForNotification_resets(w) ==
  IF w.svc.lastNotificationTime = NULL THEN w
  ELSE IF isInQuietTime(w) \/ w.svc.isQuietMode
  THEN [w EXCEPT !.svc.lastNotificationTime = w.now]
  ELSE LET timeSinceLastNotification == w.now - w.svc.lastNotificationTime
       IN IF timeSinceLastNotification >= w.svc.notificationInterval
          THEN triggerNotification(w)
          ELSE w

checkForNotification(w) ==
  IF w.svc.lastNotificationTime = NULL THEN w
  ELSE IF isInQuietTime(w) THEN w
  ELSE IF w.svc.isQuietMode THEN w
  ELSE LET timeSinceLastNotification == w.now - w.svc.lastNotificationTime
       IN IF timeSinceLastNotification >= w.svc.notificationInterval
          THEN triggerNotification(w)
          ELSE w

\* generateId: `${Date.now()}-${random}`
generateId(w, r) == <<w.now, r>>

\* the body of a variant of addActivity: the activity runs from startTime
\* to endTime, and lastNotificationTime is set to lastAfter once it is stored
AddActivityAs(w, description, tags, r, startTime, endTime, lastAfter) ==
  IF w.svc.sessionStartTime = NULL \/ w.svc.lastNotificationTime = NULL
  THEN Throw(w, "No active session")
  ELSE LET activity ==
             [id |-> generateId(w, r),
              description |-> description,
              tags |-> tags,
              startTime |-> startTime,
              endTime |-> endTime,
              duration |-> w.svc.notificationInterval,
              createdAt |-> w.now]
           w1 == Storage_addActivity(w, activity)
           w2 == [w1 EXCEPT !.svc.lastNotificationTime = lastAfter]
           w3 == IF lastAfter = w.svc.lastNotificationTime THEN w2
                 ELSE Storage_saveSession(w2, w2.svc.sessionStartTime, lastAfter)
       IN IF w1.err # NoErr THEN w1
          ELSE [emit(w3, "activity-added") EXCEPT !.act = Some(activity)]

\* addActivity that advances lastNotificationTime to the time of recording
addActivity_advances(w, description, tags, r) ==
  AddActivityAs(w, description, tags, r,
                w.svc.lastNotificationTime - w.svc.notificationInterval,
                w.svc.lastNotificationTime, w.now)

\* addActivity that logs the interval that ends at the time of recording
addActivity_fromNow(w, description, tags, r) ==
  AddActivityAs(w, description, tags, r,
                w.now - w.svc.notificationInterval, w.now,
                w.svc.lastNotificationTime)

\* addActivity that ends the activity at the time of recording
addActivity_endNow(w, description, tags, r) ==
  AddActivityAs(w, description, tags, r,
                w.svc.lastNotificationTime - w.svc.notificationInterval,
                w.now, w.svc.lastNotificationTime)

\* addActivity that logs the default interval whatever interval is set
addActivity_defaultInterval(w, description, tags, r) ==
  IF w.svc.sessionStartTime = NULL \/ w.svc.lastNotificationTime = NULL
  THEN Throw(w, "No active session")
  ELSE LET activity ==
             [id |-> generateId(w, r),
              description |-> description,
              tags |-> tags,
              startTime |-> w.svc.lastNotificationTime - DefaultInterval,
              endTime |-> w.svc.lastNotificationTime,
              duration |-> DefaultInterval,
              createdAt |-> w.now]
           w1 == Storage_addActivity(w, activity)
       IN IF w1.err # NoErr THEN w1
          ELSE [emit(w1, "activity-added") EXCEPT !.act = Some(activity)]

addActivity(w, description, tags, r) ==
  IF w.svc.sessionStartTime = NULL \/ w.svc.lastNotificationTime = NULL
  THEN Throw(w, "No active session")
  ELSE LET previousNotificationTime ==
             w.svc.lastNotificationTime - w.svc.notificationInterval
           activity ==
             [id |-> generateId(w, r),
              description |-> description,
              tags |-> tags,
              startTime |-> previousNotificationTime,
              endTime |-> w.svc.lastNotificationTime,
              duration |-> w.svc.notificationInterval,
              createdAt |-> w.now]
           w1 == Storage_addActivity(w, activity)
       IN IF w1.err # NoErr THEN w1
          ELSE [emit(w1, "activity-added") EXCEPT !.act = Some(activity)]

\* setNotificationInterval with <= for <
setNotificationInterval_inclusive(w, milliseconds) ==
  IF milliseconds <= MinInterval
  THEN Throw(w, "Interval must be at least 1 second")
  ELSE [w EXCEPT !.svc.notificationInterval = milliseconds]

setNotificationInterval(w, milliseconds) ==
  IF milliseconds < MinInterval
  THEN Throw(w, "Interval must be at least 1 second")
  ELSE [w EXCEPT !.svc.notificationInterval = milliseconds]

setQuietMode(w, enabled) == [w EXCEPT !.svc.isQuietMode = enabled]

setQuietTimes(w, quietTimes) == [w EXCEPT !.svc.quietTimes = quietTimes]

\* loadSessionIfExists with <= for <
loadSessionIfExists_lenient(w) ==
  LET session == Storage_loadSession(w)
  IN IF session = None THEN w
     ELSE LET timeSinceStart == w.now - session[1].start
          IN IF timeSinceStart <= StaleMs
             THEN [w EXCEPT !.svc.sessionStartTime = session[1].start,
                            !.svc.lastNotificationTime =
                               session[1].lastNotification]
             ELSE Storage_clearSession(w)

loadSessionIfExists(w) ==
  LET session == Storage_loadSession(w)
  IN IF session = None THEN w
     ELSE LET timeSinceStart == w.now - session[1].start
          IN IF timeSinceStart < StaleMs
             THEN [w EXCEPT !.svc.sessionStartTime = session[1].start,
                            !.svc.lastNotificationTime =
                               session[1].lastNotification]
             ELSE Storage_clearSession(w)

\* skipNotification that does not write the session back
skipNotification_unsaved(w) ==
  [w EXCEPT !.svc.lastNotificationTime = w.now]

skipNotification(w) ==
  LET w1 == [w EXCEPT !.svc.lastNotificationTime = w.now]
  IN IF w1.svc.sessionStartTime # NULL
     THEN Storage_saveSession(w1, w1.svc.sessionStartTime,
                              w1.svc.lastNotificationTime)
     ELSE w1


\* ------------------------------------------------------ useTimeTrackerStore
Store_startTracking(w) ==
  LET w1 == setNotificationInterval(w, w.ui.settings.notificationInterval)
  IN IF w1.err # NoErr THEN w1
     ELSE LET w2 == setQuietTimes(w1, w1.ui.settings.quietTimes)
              w3 == startTracking(w2)
          IN [w3 EXCEPT !.ui.isTracking = TRUE]

\* a stopTracking that stops the service at once
Store_stopTracking_immediate(w) ==
  [stopTracking(w) EXCEPT !.ui.isTracking = FALSE]

\* the actual stop happens after the entry is submitted or skipped
Store_stopTracking(w) ==
  [w EXCEPT !.ui.showActivityModal = TRUE, !.ui.isStopping = TRUE]

Store_finalizeStopTracking(w) ==
  [stopTracking(w) EXCEPT !.ui.isTracking = FALSE,
                          !.ui.isStopping = FALSE,
                          !.ui.showActivityModal = FALSE]

Store_toggleQuietMode(w) ==
  LET newMode == ~w.ui.isQuietMode
  IN [setQuietMode(w, newMode) EXCEPT !.ui.isQuietMode = newMode]

\* the error of a failed addActivity is caught and logged
Store_addActivity(w, description, tags, r) ==
  LET w1 == addActivity(w, description, tags, r)
  IN IF w1.err # NoErr THEN [w1 EXCEPT !.err = NoErr]
     ELSE IF w1.ui.isStopping THEN Store_finalizeStopTracking(w1)
     ELSE [w1 EXCEPT !.ui.showActivityModal = FALSE]

SkippedDescription == "Activity skipped"
SkippedTags == <<":skipped">>

Store_skipActivity(w, r) ==
  LET w1 == addActivity(w, SkippedDescription, SkippedTags, r)
  IN IF w1.err # NoErr
     THEN [w1 EXCEPT !.err = NoErr, !.ui.showActivityModal = FALSE]
     ELSE IF w1.ui.isStopping THEN Store_finalizeStopTracking(w1)
     ELSE [w1 EXCEPT !.ui.showActivityModal = FALSE]

\* updates is a partial Settings: a function from field names to values
Merge(settings, updates) ==
  [f \in DOMAIN settings |->
     IF f \in DOMAIN updates THEN updates[f] ELSE settings[f]]

Store_updateSettings(w, updates) ==
  LET newSettings == Merge(w.ui.settings, updates)
      w1 == Storage_saveSettings(w, newSettings)
  IN IF w1.err # NoErr THEN w1
     ELSE LET w2 == setNotificationInterval(w1, newSettings.notificationInterval)
          IN IF w2.err # NoErr THEN w2
             ELSE [setQuietTimes(w2, newSettings.quietTimes)
                     EXCEPT !.ui.settings = newSettings]

Store_setNotificationInterval(w, minutes, seconds) ==
  LET milliseconds == (minutes * 60 + seconds) * 1000
      newSettings == [w.ui.settings EXCEPT !.notificationInterval = milliseconds]
      w1 == Storage_saveSettings(w, newSettings)
  IN IF w1.err # NoErr THEN w1
     ELSE LET w2 == setNotificationInterval(w1, milliseconds)
          IN IF w2.err # NoErr THEN w2
             ELSE [w2 EXCEPT !.ui.settings = newSettings]

\* the tail shared by addQuietTime, removeQuietTime and updateQuietTime
ApplyQuietTimes(w, newQuietTimes) ==
  LET newSettings == [w.ui.settings EXCEPT !.quietTimes = newQuietTimes]
      w1 == Storage_saveSettings(w, newSettings)
  IN IF w1.err # NoErr THEN w1
     ELSE [setQuietTimes(w1, newQuietTimes) EXCEPT !.ui.settings = newSettings]

Store_addQuietTime(w, quietTime) ==
  ApplyQuietTimes(w, Append(w.ui.settings.quietTimes, quietTime))

Store_removeQuietTime(w, i) ==
  ApplyQuietTimes(w, SubSeq(w.ui.settings.quietTimes, 1, i - 1)
                       \o SubSeq(w.ui.settings.quietTimes, i + 1,
                                 Len(w.ui.settings.quietTimes)))

Store_updateQuietTime(w, i, updates) ==
  ApplyQuietTimes(w, [w.ui.settings.quietTimes EXCEPT ![i] = Merge(@, updates)])

Store_setShowActivityModal(w, show) ==
  [w EXCEPT !.ui.showActivityModal = show]

\* on any error the store falls back to safe defaults and rethrows
InitializeFailed(w) ==
  [w EXCEPT !.ui.settings = DEFAULT_SETTINGS, !.ui.isTracking = FALSE]

Store_initialize(w) ==
  LET savedSettings == Storage_loadSettings(w)
      settings == IF savedSettings # None THEN savedSettings[1]
                  ELSE DEFAULT_SETTINGS
      w1 == Storage_saveSettings(w, settings)
  IN IF w1.err # NoErr THEN InitializeFailed(w1)
     ELSE LET sessionInfo == getSessionInfo(w1)
              isTracking == sessionInfo.isActive
              w2 == IF isTracking
                    THEN setNotificationInterval(w1, settings.notificationInterval)
                    ELSE w1
          IN IF w2.err # NoErr THEN InitializeFailed(w2)
             ELSE LET w3 == IF isTracking
                            THEN setQuietTimes(w2, settings.quietTimes)
                            ELSE w2
                      w4 == addEventListener(w3, StoreName)
                  IN [w4 EXCEPT !.ui.settings = settings,
                                !.ui.isTracking = isTracking]

\* a page load: the module singletons are constructed (the service's
\* constructor runs loadSessionIfExists), then App's effect runs initialize()
\* and catches what it throws; timers of an earlier page are gone
PageLoad(n, f, l) ==
  LET w0 == World(n, f, NewService, l, NewStore, {})
      w1 == Store_initialize(loadSessionIfExists(w0))
  IN [w1 EXCEPT !.err = NoErr]


\* ------------------------------------------------------------------ inputs
Descriptions == {"wrote code"}
TagLists == {<<"work", "coding">>}
\* the random suffix of generateId
RandomSuffixes == {0}
\* what the user types into the Minutes and Seconds fields
MinuteInputs == {0}
SecondInputs == {0, 1, 15}

\* stored quiet times that did not come from the settings dialog
QtFirstMinute ==
  [startTime |-> HHMM(0, 0), endTime |-> HHMM(0, 0),
   days |-> AllDays, enabled |-> TRUE]
QtSecondMinute ==
  [startTime |-> HHMM(0, 1), endTime |-> HHMM(0, 59),
   days |-> {Sunday}, enabled |-> TRUE]
QtMonday ==
  [startTime |-> HHMM(0, 0), endTime |-> HHMM(23, 59),
   days |-> {1}, enabled |-> TRUE]

SeedSettings ==
  {Some([notificationInterval |-> DefaultInterval, quietTimes |-> q]) :
     q \in {<<QtFirstMinute>>, <<QtMonday, QtSecondMinute>>}}

\* a session a previous page left behind: started 30 minutes, just under an
\* hour, exactly an hour or two hours ago
SeedAges == {30 * MinuteMs, StaleMs - 1, StaleMs, 2 * HourMs}
SeedSessions ==
  {Some([start |-> toISOString(StartNow - a),
         lastNotification |-> toISOString(StartNow - a + DefaultInterval)]) :
     a \in SeedAges}

\* torn: the keys whose text was cut short and does not parse any more; the
\* value noted for such a key is what the text held before
EmptyStorage ==
  [activities |-> None, settings |-> None, session |-> None, torn |-> {}]

\* what the page finds in localStorage: nothing, or a session an earlier
\* page left behind
SessionStorages ==
  {EmptyStorage} \cup {[EmptyStorage EXCEPT !.session = s] : s \in SeedSessions}

\* or settings with quiet times
SeedStorages ==
  SessionStorages
    \cup {[EmptyStorage EXCEPT !.settings = s] : s \in SeedSettings}

\* an activity an earlier page recorded
EarlierActivity ==
  [id |-> "earlier",
   description |-> "read mail",
   tags |-> <<"work">>,
   startTime |-> StartNow - 30 * MinuteMs - DefaultInterval,
   endTime |-> StartNow - 30 * MinuteMs,
   duration |-> DefaultInterval,
   createdAt |-> StartNow - 30 * MinuteMs]

\* what the page finds when the text under a key does not parse: a session
\* or a list of activities an earlier page wrote, cut short
FaultStorages ==
  {EmptyStorage,
   [EmptyStorage EXCEPT
      !.session = Some([start |-> toISOString(StartNow - 30 * MinuteMs),
                        lastNotification |-> toISOString(StartNow - 30 * MinuteMs)]),
      !.torn = {"session"}],
   [EmptyStorage EXCEPT
      !.activities = Some(<<SerializeActivity(EarlierActivity)>>),
      !.torn = {"activities"}]}

\* ------------------------------------------------------------- observation
Range(f) == {f[i] : i \in DOMAIN f}

Here == World(now, quotaFull, svc, ls, ui, timers)

\* a poll at this instant is suppressed by quiet mode or a quiet-time window
Suppressed == svc.isQuietMode \/ isInQuietTime(Here)

\* the interval has elapsed since the last prompt
Elapsed ==
  /\ svc.lastNotificationTime # NULL
  /\ now - svc.lastNotificationTime >= svc.notificationInterval

\* The history of the session, as an observer of the program would note it:
\*   T0       when startTracking began the session (NULL: no session begun)
\*   first    nothing has moved lastNotificationTime since T0
\*   constI   the interval has kept one value since T0
\*   log      the activities recorded since T0
\*   B        when the latest prompt of the session fired (NULL: none yet)
\*   clean    since B the interval and lastNotificationTime have not changed
\*   answered an activity was recorded for the prompt at B, less than one
\*            interval after it
\*   overdue  a poll was suppressed although the interval had elapsed, and
\*            no prompt has fired since
\*   late     the prompt that has just fired had been overdue
\*   next     the prompt that has just fired follows an answered one, with
\*            nothing but time and polls in between
\*   pending  a prompt has fired and nothing has been recorded or skipped
\*            since
\*   promptI  the interval in force when lastNotificationTime was last set
\*            (NULL: not set in this session)
NoHist ==
  [T0 |-> NULL, first |-> FALSE, constI |-> TRUE, log |-> <<>>, B |-> NULL,
   clean |-> FALSE, answered |-> FALSE, overdue |-> FALSE, late |-> FALSE,
   next |-> FALSE, pending |-> FALSE, promptI |-> NULL]

Observe(op, w) ==
  LET fired == "notification-due" \in Range(w.events)
      moved == w.svc.lastNotificationTime # svc.lastNotificationTime
      sameI == w.svc.notificationInterval = svc.notificationInterval
      log == IF w.act # None THEN Append(hist.log, w.act[1]) ELSE hist.log
  IN IF "session-started" \in Range(w.events)
     THEN [NoHist EXCEPT !.T0 = w.now, !.first = TRUE,
                         !.promptI = w.svc.notificationInterval]
     ELSE IF "session-stopped" \in Range(w.events)
     THEN [NoHist EXCEPT !.constI = hist.constI /\ sameI, !.log = log]
     ELSE [T0 |-> hist.T0,
           first |-> hist.first /\ ~moved,
           constI |-> hist.constI /\ sameI,
           log |-> log,
           B |-> IF fired THEN w.now ELSE hist.B,
           clean |-> fired \/ (hist.clean /\ ~moved /\ sameI),
           answered |->
             /\ ~fired
             /\ \/ hist.answered
                \/ /\ w.act # None
                   /\ hist.B # NULL
                   /\ hist.clean
                   /\ hist.B < w.now
                   /\ w.now < hist.B + svc.notificationInterval,
           overdue |->
             /\ ~fired
             /\ \/ hist.overdue /\ ~moved
                \/ op = "poll" /\ Suppressed /\ Elapsed,
           late |-> fired /\ hist.overdue,
           next |-> fired /\ hist.answered /\ hist.clean /\ hist.constI,
           pending |->
             \/ fired
             \/ hist.pending /\ w.act = None /\ op # "skipNotification",
           promptI |->
             IF fired \/ op = "skipNotification"
             THEN w.svc.notificationInterval
             ELSE hist.promptI]

\* what the last operation was, the argument it was given (NULL: none), and
\* what it put out
Outcome(op, arg, w) ==
  [op |-> op, arg |-> arg, events |-> w.events, calls |-> w.calls,
   shows |-> w.shows, err |-> w.err, act |-> w.act]

Commit(op, arg, w) ==
  /\ svc' = w.svc
  /\ ls' = w.ls
  /\ ui' = w.ui
  /\ timers' = w.timers
  /\ last' = Outcome(op, arg, w)
  /\ hist' = Observe(op, w)
  /\ UNCHANGED <<now, quotaFull>>

\* a gesture of the user, or a call from outside: two of them never fall on
\* the same instant of the clock
Gesture(op, arg, w) ==
  /\ ~acted
  /\ acted' = TRUE
  /\ Commit(op, arg, w)

CanRecord == Len(Storage_loadActivities(Here)) < MaxActs

\* when the session a page load finds in the storage l had started (NULL:
\* there is none)
StoredStart(l) ==
  IF l.session = None \/ "session" \in l.torn THEN NULL
  ELSE parseISO(l.session[1].start)

\* -------------------------------------------------------------------- Init
InitFrom(storages) ==
  /\ now = StartNow
  /\ quotaFull = FALSE
  /\ \E l \in storages :
       LET w == PageLoad(StartNow, FALSE, l)
       IN /\ svc = w.svc
          /\ ls = w.ls
          /\ ui = w.ui
          /\ timers = w.timers
          /\ last = Outcome("load", StoredStart(l), w)
  /\ hist = NoHist
  /\ acted = FALSE

Init == InitFrom(SeedStorages)

\* quiet times reach the service through the store only
InitApi == InitFrom(SessionStorages)

\* ------------------------------------------------------------- environment
\* time passes; a due timer is not kept waiting for MaxLate ms
ClockAdvance ==
  /\ now + ClockStep <= MaxNow
  /\ \A t \in timers : now < t.due + MaxLate
  /\ now' = now + ClockStep
  /\ last' = Outcome("clock", NULL, Here)
  /\ acted' = FALSE
  /\ UNCHANGED <<quotaFull, svc, ls, ui, timers, hist>>

\* the storage quota runs out, or is freed again, between two calls
QuotaChange ==
  /\ ~acted
  /\ acted' = TRUE
  /\ quotaFull' = ~quotaFull
  /\ last' = Outcome("quota", NULL, Here)
  /\ UNCHANGED <<now, svc, ls, ui, timers, hist>>

\* a setInterval timer that is due fires: the handler startTracking installed
\* runs checkForNotification, and the timer is due again a period later
PollTick ==
  \E t \in timers :
    /\ now >= t.due
    /\ LET w == checkForNotification(Here)
       IN Commit("poll", NULL,
                 [w EXCEPT !.timers = (@ \ {t})
                              \cup {[id |-> t.id, due |-> now + PollPeriod]}])
    /\ UNCHANGED acted

\* the page is reloaded; the argument noted is the start of the session found
Reload == Gesture("load", StoredStart(ls), PageLoad(now, quotaFull, ls))

\* ------------------------------------------------------ the user's actions
\* Header: the Start button is disabled while the store says tracking
ClickStart ==
  /\ ~ui.isTracking
  /\ Gesture("store.startTracking", NULL, Store_startTracking(Here))

\* Header: the Stop button is disabled unless the store says tracking
ClickStop ==
  /\ ui.isTracking
  /\ Gesture("store.stopTracking", NULL, Store_stopTracking(Here))

ClickQuietMode ==
  Gesture("store.toggleQuietMode", NULL, Store_toggleQuietMode(Here))

\* ActivityModal: the form is there while the modal shows
SubmitActivity ==
  /\ ui.showActivityModal
  /\ CanRecord
  /\ \E d \in Descriptions, tg \in TagLists, r \in RandomSuffixes :
       Gesture("store.addActivity", NULL, Store_addActivity(Here, d, tg, r))

ClickSkip ==
  /\ ui.showActivityModal
  /\ CanRecord
  /\ \E r \in RandomSuffixes :
       Gesture("store.skipActivity", NULL, Store_skipActivity(Here, r))

\* ActivityModal: a click on the backdrop closes the modal
DismissModal ==
  /\ ui.showActivityModal
  /\ Gesture("store.setShowActivityModal", NULL,
             Store_setShowActivityModal(Here, FALSE))

\* SettingsModal: Save Interval; the argument noted is the milliseconds the
\* store hands to the service
SaveInterval ==
  \E m \in MinuteInputs, sec \in SecondInputs :
    Gesture("store.setNotificationInterval", (m * 60 + sec) * 1000,
            Store_setNotificationInterval(Here, m, sec))

\* SettingsModal: the sound checkbox (the sound flag itself is not modelled)
ToggleSound ==
  Gesture("store.updateSettings", NULL,
          Store_updateSettings(Here, [soundEnabled |-> TRUE]))

AddQuietTime ==
  /\ Len(ui.settings.quietTimes) < MaxQuiet
  /\ Gesture("store.addQuietTime", NULL, Store_addQuietTime(Here, NewQuietTime))

RemoveQuietTime ==
  \E i \in 1..Len(ui.settings.quietTimes) :
    Gesture("store.removeQuietTime", i, Store_removeQuietTime(Here, i))

ToggleQuietTime ==
  \E i \in 1..Len(ui.settings.quietTimes) :
    Gesture("store.updateQuietTime", i,
            Store_updateQuietTime(Here, i,
              [enabled |-> ~ui.settings.quietTimes[i].enabled]))

\* the data is exported and the exported text imported again
ImportExported ==
  Gesture("importData", NULL, importData(Here, exportData(Here)))

\* ------------------------------------- direct calls of the service's methods
MsInputs == {999, 1000, 15000}

CallStartTracking == Gesture("startTracking", NULL, startTracking(Here))

CallStopTracking == Gesture("stopTracking", NULL, stopTracking(Here))

CallSkipNotification == Gesture("skipNotification", NULL, skipNotification(Here))

CallAddActivity ==
  /\ CanRecord
  /\ \E d \in Descriptions, tg \in TagLists, r \in RandomSuffixes :
       Gesture("addActivity", NULL, addActivity(Here, d, tg, r))

CallSetNotificationInterval ==
  \E ms \in MsInputs :
    Gesture("setNotificationInterval", ms, setNotificationInterval(Here, ms))

CallSetQuietMode ==
  \E enabled \in BOOLEAN :
    Gesture("setQuietMode", NULL, setQuietMode(Here, enabled))

\* a client registers a listener of its own; the same one may be registered
\* more than once
ClientListeners == {ProbeName, ThrowerName}

CallAddEventListener ==
  /\ Len(svc.listeners) < MaxListeners
  /\ \E l \in ClientListeners :
       Gesture("addEventListener", l, addEventListener(Here, l))

\* the client calls the handle it got for a listener it has registered
CallUnsubscribe ==
  \E l \in ClientListeners \cap Range(svc.listeners) :
    Gesture("unsubscribe", l, unsubscribe(Here, l))

\* ---------------------------------------------------------- specifications
\* the application as its user drives it
Next ==
  \/ ClockAdvance
  \/ PollTick
  \/ Reload
  \/ ClickStart
  \/ ClickStop
  \/ ClickQuietMode
  \/ SubmitActivity
  \/ ClickSkip
  \/ DismissModal
  \/ SaveInterval
  \/ ToggleSound
  \/ AddQuietTime
  \/ RemoveQuietTime
  \/ ToggleQuietTime

Spec == Init /\ [][Next]_vars

\* the service driven through its public methods
NextApi ==
  \/ ClockAdvance
  \/ PollTick
  \/ Reload
  \/ CallStartTracking
  \/ CallStopTracking
  \/ CallSkipNotification
  \/ CallAddActivity
  \/ CallSetNotificationInterval
  \/ CallSetQuietMode

SpecApi == InitApi /\ [][NextApi]_vars

\* the application with its data exported and imported
NextData ==
  \/ ClockAdvance
  \/ PollTick
  \/ ClickStart
  \/ ClickStop
  \/ SubmitActivity
  \/ ClickSkip
  \/ SaveInterval
  \/ AddQuietTime
  \/ ImportExported

SpecData == Init /\ [][NextData]_vars

\* the service while writes to localStorage fail and succeed again, on a
\* page that may have found a torn text
InitFault == InitFrom(FaultStorages)

NextFault ==
  \/ ClockAdvance
  \/ QuotaChange
  \/ PollTick
  \/ Reload
  \/ CallStartTracking
  \/ CallStopTracking
  \/ CallSkipNotification
  \/ CallAddActivity
  \/ CallSetNotificationInterval

SpecFault == InitFault /\ [][NextFault]_vars

\* the service with clients that listen to its events
InitBus == InitFrom({EmptyStorage})

NextBus ==
  \/ ClockAdvance
  \/ PollTick
  \/ CallStartTracking
  \/ CallStopTracking
  \/ CallAddActivity
  \/ CallSetNotificationInterval
  \/ CallAddEventListener
  \/ CallUnsubscribe

SpecBus == InitBus /\ [][NextBus]_vars


\* ------------------------------------------------------------------ claims
Fired(l) == "notification-due" \in Range(l.events)

SessionOf(start, lastNotification) ==
  Some([start |-> toISOString(start),
        lastNotification |-> toISOString(lastNotification)])

\* the session in memory before and after the step is the same one
SameSession ==
  /\ svc.sessionStartTime # NULL
  /\ svc'.sessionStartTime = svc.sessionStartTime

\* C1: in a session startTracking began at T0, as long as nothing has moved
\* lastNotificationTime and the poll is not suppressed by quiet mode or a
\* quiet-time window, a poll tick emits notification-due exactly when
\* now >= T0 + interval: never before, and at the first tick from then on.
C1_FirstPrompt ==
  [][(last'.op = "poll" /\ hist.T0 # NULL /\ hist.first /\ ~Suppressed)
       => (Fired(last') <=> now >= hist.T0 + svc.notificationInterval)]_vars

C1_Witness ==
  /\ last.op = "poll"
  /\ Fired(last)
  /\ hist.T0 # NULL
  /\ hist.constI
  /\ now = hist.T0 + svc.notificationInterval

\* C2 as stated: a poll that fires a prompt leaves lastNotificationTime and
\* the stored session as they were, and within a session
\* lastNotificationTime changes only when an activity is recorded.
C2_PromptKeepsLastPromptTime ==
  [][/\ (last'.op = "poll" /\ Fired(last'))
          => /\ svc'.lastNotificationTime = svc.lastNotificationTime
             /\ ls'.session = ls.session
     /\ (SameSession /\ svc'.lastNotificationTime # svc.lastNotificationTime)
          => last'.act # None]_vars

\* C2 amended: a poll that fires a prompt sets lastNotificationTime to the
\* time of that poll, in memory and (when the write succeeds) in the stored
\* session; within a session lastNotificationTime changes only when a
\* prompt fires or skipNotification is called.
C2_PromptSetsLastPromptTime ==
  [][/\ (last'.op = "poll" /\ Fired(last'))
          => /\ svc'.lastNotificationTime = now
             /\ (svc.sessionStartTime # NULL /\ ~quotaFull)
                  => ls'.session = SessionOf(svc.sessionStartTime, now)
     /\ (SameSession /\ svc'.lastNotificationTime # svc.lastNotificationTime)
          => \/ last'.op = "poll" /\ Fired(last')
             \/ last'.op = "skipNotification"]_vars

C2_Witness ==
  /\ last.op = "poll"
  /\ Fired(last)
  /\ svc.lastNotificationTime = now
  /\ svc.sessionStartTime < now
  /\ ls.session = SessionOf(svc.sessionStartTime, now)

\* C3 as stated: a successful addActivity sets lastNotificationTime to the
\* time of recording and writes it to the stored session (the entry that
\* ends a session, after which there is no session, is left aside).
C3_RecordAdvancesLastPromptTime ==
  [][(last'.act # None /\ "session-stopped" \notin Range(last'.events))
       => /\ svc'.lastNotificationTime = now
          /\ ls'.session = SessionOf(svc'.sessionStartTime, now)]_vars

\* C3 amended: a successful addActivity appends the activity to the stored
\* log, with endTime = lastNotificationTime, and does not advance
\* lastNotificationTime: it and the stored session stay as they were (and
\* are cleared when the store ends the session with this entry).
C3_RecordKeepsLastPromptTime ==
  [][last'.act # None
       => /\ last'.act[1].endTime = svc.lastNotificationTime
          /\ Storage_loadActivities(Here')
               = Append(Storage_loadActivities(Here), last'.act[1])
          /\ IF "session-stopped" \in Range(last'.events)
             THEN svc'.lastNotificationTime = NULL /\ ls'.session = None
             ELSE /\ svc'.lastNotificationTime = svc.lastNotificationTime
                  /\ ls'.session = ls.session]_vars

C3_Witness ==
  /\ last.op = "store.addActivity"
  /\ last.act # None
  /\ svc.lastNotificationTime # NULL
  /\ svc.lastNotificationTime < now
  /\ last.act[1].endTime = svc.lastNotificationTime
  /\ ls.session = SessionOf(svc.sessionStartTime, svc.lastNotificationTime)

\* C4: with the interval I constant, an activity recorded d after the prompt
\* at B (0 < d < I) has startTime = B - I and endTime = B and leaves
\* lastNotificationTime at B; and the polls that follow fire the next prompt
\* exactly from B + I on.
C4_BackDated ==
  [][/\ ( /\ last'.act # None
          /\ hist.B # NULL /\ hist.clean /\ hist.constI
          /\ hist.B < now /\ now < hist.B + svc.notificationInterval )
          => /\ last'.act[1].startTime = hist.B - svc.notificationInterval
             /\ last'.act[1].endTime = hist.B
             /\ svc'.lastNotificationTime \in {hist.B, NULL}
     /\ ( /\ last'.op = "poll"
          /\ hist.answered /\ hist.clean /\ hist.constI
          /\ ~Suppressed )
          => (Fired(last') <=> now >= hist.B + svc.notificationInterval)]_vars

C4_Witness ==
  /\ last.op = "poll"
  /\ Fired(last)
  /\ hist.next
  /\ Len(hist.log) > 0
  /\ hist.log[Len(hist.log)].endTime = now - svc.notificationInterval
  /\ hist.log[Len(hist.log)].createdAt > hist.log[Len(hist.log)].endTime

\* C5: every stored activity has endTime - startTime = duration and
\* startTime <= endTime, and the activity just recorded (the sentinel of the
\* skip path too) has the interval in force as its duration.
C5_Duration ==
  /\ \A a \in Range(Storage_loadActivities(Here)) :
       /\ a.endTime - a.startTime = a.duration
       /\ a.startTime <= a.endTime
  /\ last.act # None
       => /\ last.act[1].duration = svc.notificationInterval
          /\ last.act[1].endTime - last.act[1].startTime = last.act[1].duration
          /\ last.act[1] \in Range(Storage_loadActivities(Here))

C5_Witness ==
  /\ last.op = "store.skipActivity"
  /\ last.act # None
  /\ last.act[1].tags = SkippedTags
  /\ last.act[1].duration = svc.notificationInterval
  /\ last.act[1].createdAt > last.act[1].endTime

\* C6: while the interval keeps one value, the activities recorded in the
\* session tile the timeline: each starts where the one before it ended.
\* (With one interval the order of recording is the order of startTime.)
C6_Tiling ==
  hist.constI
    => \A i \in 1..(Len(hist.log) - 1) :
         hist.log[i + 1].startTime = hist.log[i].endTime

\* C7: startTracking called while the timer runs changes nothing: not the
\* service's fields, the stored session, the timers or the store, and it
\* emits no event.
C7_StartIdempotent ==
  [][(last'.op = "startTracking" /\ svc.timerId # NULL)
       => /\ svc' = svc
          /\ ls' = ls
          /\ timers' = timers
          /\ ui' = ui
          /\ last'.events = <<>>]_vars

C7_Witness ==
  /\ last.op = "startTracking"
  /\ last.events = <<>>
  /\ svc.timerId # NULL
  /\ Cardinality(timers) = 1
  /\ svc.sessionStartTime < now

\* C8: setNotificationInterval(ms) succeeds and sets the interval to ms when
\* ms >= 1000; when ms < 1000 it throws and the service is left as it was.
C8_IntervalValidation ==
  [][last'.op = "setNotificationInterval"
       => IF last'.arg >= 1000
          THEN last'.err = NoErr /\ svc'.notificationInterval = last'.arg
          ELSE last'.err # NoErr /\ svc' = svc]_vars

C8_Witness ==
  /\ last.op = "setNotificationInterval"
  /\ last.arg < 1000
  /\ last.err # NoErr
  /\ svc.notificationInterval = 1000

\* C9: a poll under quiet mode or inside an enabled quiet-time window emits
\* nothing, calls no Notifier, changes neither the service nor the storage and
\* leaves the timer running; once no suppression applies, a prompt that has
\* become overdue fires at the next poll.
C9_Suppression ==
  [][last'.op = "poll"
       => /\ Suppressed
               => /\ ~Fired(last')
                  /\ last'.shows = 0
                  /\ svc' = svc
                  /\ ls' = ls
                  /\ \E t \in timers' : t.id = svc'.timerId
          /\ (hist.overdue /\ Elapsed /\ ~Suppressed) => Fired(last')]_vars

C9_Witness ==
  /\ last.op = "poll"
  /\ Fired(last)
  /\ hist.late
  /\ now > hist.T0 + svc.notificationInterval

\* C10: after a page load that found a stored session less than an hour old,
\* the service is tracking: isActive, the poll timer running, and
\* sessionStartTime and lastNotificationTime as stored.
C10_Recovery ==
  (/\ last.op = "load"
   /\ ls.session # None
   /\ now - parseISO(ls.session[1].start) < StaleMs)
    => /\ getSessionInfo(Here).isActive
       /\ \E t \in timers : t.id = svc.timerId
       /\ svc.sessionStartTime = parseISO(ls.session[1].start)
       /\ svc.lastNotificationTime = parseISO(ls.session[1].lastNotification)

\* C11: after a page load that found a stored session an hour old or older,
\* there is no session: sessionStartTime and lastNotificationTime are null,
\* isActive is false, no timer runs, and the stored session is removed.
C11_StaleDiscarded ==
  (/\ last.op = "load"
   /\ last.arg # NULL
   /\ now - last.arg >= StaleMs)
    => /\ svc.sessionStartTime = NULL
       /\ svc.lastNotificationTime = NULL
       /\ ~getSessionInfo(Here).isActive
       /\ timers = {}
       /\ ls.session = None

\* a session restored by one page load has gone stale at the next
C11_Witness ==
  /\ last.op = "load"
  /\ last.arg # NULL
  /\ now - last.arg >= StaleMs
  /\ now > StartNow
  /\ ls.session = None
  /\ svc.sessionStartTime = NULL

\* C12: addActivity called while getSessionInfo().isActive is false throws,
\* stores no activity, emits no event and leaves the service as it was.
C12_NoActiveSession ==
  [][(last'.op = "addActivity" /\ ~getSessionInfo(Here).isActive)
       => /\ last'.err # NoErr
          /\ last'.act = None
          /\ last'.events = <<>>
          /\ ls' = ls
          /\ svc' = svc]_vars

\* the poll timer of the session is installed
TimerRuns(s, ts) == s.timerId # NULL /\ \E t \in ts : t.id = s.timerId

\* C13: the store's stopTracking only opens the entry form and notes that a
\* stop is under way: service, storage and timers are as before.  While a
\* stop is under way, a step of the page that records no activity leaves the
\* session in memory, the stored session and the poll timer in place.  And
\* session-stopped is emitted only by a step that began with a stop under way
\* and stored an activity.
C13_StopDeferred ==
  [][/\ last'.op = "store.stopTracking"
          => /\ svc' = svc
             /\ ls' = ls
             /\ timers' = timers
             /\ last'.events = <<>>
             /\ TimerRuns(svc', timers')
             /\ ui'.isStopping
             /\ ui'.showActivityModal
     /\ (ui.isStopping /\ last'.op # "load" /\ last'.act = None)
          => /\ svc'.sessionStartTime = svc.sessionStartTime
             /\ svc'.sessionStartTime # NULL
             /\ svc'.timerId = svc.timerId
             /\ TimerRuns(svc', timers')
             /\ ls'.session # None
             /\ ui'.isStopping
     /\ "session-stopped" \in Range(last'.events)
          => /\ ui.isStopping
             /\ last'.act # None
             /\ Storage_loadActivities(Here')
                  = Append(Storage_loadActivities(Here), last'.act[1])]_vars

\* a poll has run, and fired a prompt, while the stop was under way
C13_Witness ==
  /\ last.op = "poll"
  /\ Fired(last)
  /\ ui.isStopping
  /\ TimerRuns(svc, timers)
  /\ svc.sessionStartTime # NULL
  /\ ls.session = SessionOf(svc.sessionStartTime, now)

\* C14: the step that records or skips the entry a stop asked for ends the
\* session: the poll timer is cleared, sessionStartTime and
\* lastNotificationTime are null, the stored session is gone, session-stopped
\* is emitted and the store is neither tracking nor stopping.  From then on
\* no prompt fires until startTracking has begun a session again: a prompt
\* fires only while the timer runs, and only a step that emits
\* session-started installs the timer.
C14_FinalEntryStops ==
  [][/\ (ui.isStopping /\ last'.act # None)
          => /\ svc'.timerId = NULL
             /\ timers' = {}
             /\ svc'.sessionStartTime = NULL
             /\ svc'.lastNotificationTime = NULL
             /\ ls'.session = None
             /\ "session-stopped" \in Range(last'.events)
             /\ ~getSessionInfo(Here').isActive
             /\ ~ui'.isTracking /\ ~ui'.isStopping /\ ~ui'.showActivityModal
     /\ Fired(last') => TimerRuns(svc, timers)
     /\ (~TimerRuns(svc, timers) /\ timers' # {})
          => "session-started" \in Range(last'.events)]_vars

\* the final entry was skipped and the session is gone
C14_Witness ==
  /\ last.op = "store.skipActivity"
  /\ "session-stopped" \in Range(last.events)
  /\ last.act # None
  /\ svc.timerId = NULL
  /\ timers = {}
  /\ ls.session = None
  /\ ~ui.isTracking

\* the listener calls that events, emitted one after the other to listeners,
\* lead to: for each event in turn, each registration in turn
ExpectedCalls(events, listeners) ==
  LET n == Len(listeners)
  IN [k \in 1..(Len(events) * n) |->
        [listener |-> listeners[((k - 1) % n) + 1],
         type |-> events[((k - 1) \div n) + 1]]]

\* C15: an operation that emits events calls, for each event in turn, every
\* listener registered at that moment once and in registration order, within
\* the same step; a listener that throws stops neither the listeners after
\* it nor the operation, which ends without an error.
C15_Delivery ==
  [][/\ last'.calls = ExpectedCalls(last'.events, svc.listeners)
     /\ last'.events # <<>>
          => /\ last'.err = NoErr
             /\ svc'.listeners = svc.listeners]_vars

\* a prompt was delivered to the store, to a listener that threw, and then
\* to the listener registered after it
C15_Witness ==
  /\ last.op = "poll"
  /\ last.events = <<"notification-due">>
  /\ last.err = NoErr
  /\ Len(last.calls) = 3
  /\ last.calls[1].listener = StoreName
  /\ last.calls[2].listener = ThrowerName
  /\ last.calls[3].listener = ProbeName
  /\ ui.showActivityModal

\* the registrations of the listeners other than listener, in order
Others(listeners, listener) == SelectSeq(listeners, LAMBDA l : l # listener)

\* C16: the handle addEventListener returned, once called, leaves its
\* listener unregistered and the registrations of the other listeners as they
\* were, in the same order, and emits nothing; an event is delivered only to
\* listeners registered when it is emitted, and a client's listener comes to
\* be registered only by addEventListener: so the listener gets no event
\* emitted after the handle was called.
C16_Unsubscribe ==
  [][/\ last'.op = "unsubscribe"
          => /\ last'.arg \notin Range(svc'.listeners)
             /\ Others(svc'.listeners, last'.arg)
                  = Others(svc.listeners, last'.arg)
             /\ last'.events = <<>>
     /\ \A i \in DOMAIN last'.calls :
          last'.calls[i].listener \in Range(svc.listeners)
     /\ \A l \in ClientListeners :
          (l \notin Range(svc.listeners) /\ l \in Range(svc'.listeners))
            => last'.op = "addEventListener" /\ last'.arg = l]_vars

\* the first of two client listeners was unsubscribed, the second stays
C16_Witness ==
  /\ last.op = "unsubscribe"
  /\ last.arg = ProbeName
  /\ svc.listeners = <<StoreName, ThrowerName>>
  /\ TimerRuns(svc, timers)

\* C17: skipNotification called while the session is active sets
\* lastNotificationTime to now, in memory and in the stored session, and
\* changes nothing else: the other fields of the service, the stored
\* activities and settings, the timers and the store are as before, no event
\* is emitted, no listener called and no activity returned.
C17_SkipNotification ==
  [][(last'.op = "skipNotification" /\ getSessionInfo(Here).isActive)
       => /\ svc' = [svc EXCEPT !.lastNotificationTime = now]
          /\ ls' = [ls EXCEPT !.session = SessionOf(svc.sessionStartTime, now)]
          /\ timers' = timers
          /\ TimerRuns(svc', timers')
          /\ ui' = ui
          /\ last'.events = <<>>
          /\ last'.calls = <<>>
          /\ last'.shows = 0
          /\ last'.act = None
          /\ last'.err = NoErr]_vars

C17_Witness ==
  /\ last.op = "skipNotification"
  /\ TimerRuns(svc, timers)
  /\ svc.sessionStartTime < now
  /\ svc.lastNotificationTime = now
  /\ ls.session = SessionOf(svc.sessionStartTime, now)
  /\ Len(Storage_loadActivities(Here)) > 0

\* C18: importing what has just been exported leaves the stored activity
\* list as it was (the same activities with the same ids, tags and times, in
\* the same order) and the stored settings as they were, and does not fail.
C18_RoundTrip ==
  [][last'.op = "importData"
       => /\ Storage_loadActivities(Here') = Storage_loadActivities(Here)
          /\ Storage_loadSettings(Here') = Storage_loadSettings(Here)
          /\ last'.err = NoErr
          /\ svc' = svc]_vars

\* two activities and settings with a quiet time went through the round trip
C18_Witness ==
  /\ last.op = "importData"
  /\ Len(Storage_loadActivities(Here)) = 2
  /\ Storage_loadActivities(Here)[1].createdAt
       < Storage_loadActivities(Here)[2].createdAt
  /\ Storage_loadSettings(Here) # None
  /\ Storage_loadSettings(Here)[1].quietTimes # <<>>
  /\ Storage_loadSettings(Here)[1].notificationInterval = MinInterval

\* C19: while a prompt is outstanding (it has fired and no activity has been
\* recorded or skipped since), no poll fires another prompt.
C19_OnePromptOutstanding ==
  [][Fired(last') => ~hist.pending]_vars

\* the minute of the day a zero-padded "HH:MM" names
MinuteOf(hhmm) ==
  ((hhmm[1] - Digit(0)) * 10 + (hhmm[2] - Digit(0))) * 60
    + (hhmm[4] - Digit(0)) * 10 + (hhmm[5] - Digit(0))

\* the window is enabled, is for today, and the minute of the day lies
\* between its start and its end, both included
Covers(qt, t) ==
  /\ qt.enabled
  /\ getDay(t) \in qt.days
  /\ MinuteOf(qt.startTime) <= getHours(t) * 60 + getMinutes(t)
  /\ getHours(t) * 60 + getMinutes(t) <= MinuteOf(qt.endTime)

C21_OldInterval ==
  [][(last'.act # None /\ hist.promptI # NULL)
       => /\ last'.act[1].duration = hist.promptI
          /\ last'.act[1].startTime = last'.act[1].endTime - hist.promptI]_vars

\* C21 amended: the activity has the interval in force when it is recorded:
\* duration = I_new and startTime = endTime - I_new, with endTime the
\* lastNotificationTime, whatever the interval was when that time was set.
C21_NewInterval ==
  [][last'.act # None
       => /\ last'.act[1].duration = svc.notificationInterval
          /\ last'.act[1].endTime = svc.lastNotificationTime
          /\ last'.act[1].startTime
               = svc.lastNotificationTime - svc.notificationInterval]_vars

\* a prompt fired after 1 s, the interval was then set to 15 s, and the
\* activity recorded for the prompt is 15 s long
C21_Witness ==
  /\ last.act # None
  /\ hist.B # NULL
  /\ hist.promptI = MinInterval
  /\ last.act[1].endTime = hist.B
  /\ last.act[1].duration = DefaultInterval
  /\ last.act[1].startTime = hist.B - DefaultInterval

\* C22: with no failing write, in every state the stored session is there
\* exactly when sessionStartTime is set, and then its start and
\* lastNotification are the ISO strings of sessionStartTime and
\* lastNotificationTime.
C22_SessionMirrored ==
  IF svc.sessionStartTime = NULL
  THEN ls.session = None
  ELSE /\ svc.lastNotificationTime # NULL
       /\ ls.session = SessionOf(svc.sessionStartTime, svc.lastNotificationTime)
       /\ Storage_loadSession(Here)
            = Some([start |-> svc.sessionStartTime,
                    lastNotification |-> svc.lastNotificationTime])

\* an activity was recorded in a session whose last prompt came after its
\* start, and the stored session mirrors it
C22_Witness ==
  /\ last.op = "addActivity"
  /\ last.act # None
  /\ TimerRuns(svc, timers)
  /\ svc.sessionStartTime < svc.lastNotificationTime
  /\ ls.session = SessionOf(svc.sessionStartTime, svc.lastNotificationTime)

\* C23: in every state with a session, in memory or stored,
\* lastNotificationTime >= sessionStartTime.
C23_LastAfterStart ==
  /\ svc.sessionStartTime # NULL
       => /\ svc.lastNotificationTime # NULL
          /\ svc.lastNotificationTime >= svc.sessionStartTime
  /\ ls.session # None
       => parseISO(ls.session[1].lastNotification)
            >= parseISO(ls.session[1].start)

\* a session begun on this page, with a prompt fired since, was recovered by
\* a reload
C23_Witness ==
  /\ last.op = "load"
  /\ svc.sessionStartTime >= StartNow
  /\ svc.lastNotificationTime > svc.sessionStartTime
  /\ Storage_loadSession(Here)
       = Some([start |-> svc.sessionStartTime,
               lastNotification |-> svc.lastNotificationTime])

\* C24: an addActivity that returns an activity has stored it and emitted
\* activity-added once, and nothing else; an addActivity in a session while
\* writes fail ends without an error for its caller, emits nothing and
\* leaves the service and the timers as they were.
C24_RecordFailureCaught ==
  [][last'.op = "addActivity"
       => /\ last'.act # None
               => /\ last'.events = <<"activity-added">>
                  /\ Storage_loadActivities(Here')
                       = Append(Storage_loadActivities(Here), last'.act[1])
          /\ (quotaFull /\ svc.sessionStartTime # NULL)
               => /\ last'.err = NoErr
                  /\ last'.act = None
                  /\ last'.events = <<>>
                  /\ ls' = ls
                  /\ svc' = svc
                  /\ timers' = timers]_vars

\* C25: a page load that finds a session text it cannot parse leaves the
\* service idle with no session.  While writes fail, a startTracking that
\* begins a session, a poll that finds the interval elapsed and a
\* skipNotification set the times in memory as they would otherwise, leave
\* the poll timer running, emit their events and end without an error; the
\* stored session is left as it was.
C25_SessionErrorsNonFatal ==
  /\ []((last.op = "load" /\ "session" \in ls.torn)
          => /\ svc.sessionStartTime = NULL
             /\ svc.lastNotificationTime = NULL
             /\ ~getSessionInfo(Here).isActive
             /\ timers = {})
  /\ [][quotaFull
         => /\ (last'.op = "startTracking" /\ svc.timerId = NULL)
                 => /\ svc'.sessionStartTime = now
                    /\ svc'.lastNotificationTime = now
                    /\ TimerRuns(svc', timers')
                    /\ last'.events = <<"session-started">>
                    /\ last'.err = NoErr
                    /\ ls'.session = ls.session
            /\ (last'.op = "poll" /\ Elapsed /\ ~Suppressed)
                 => /\ svc'.lastNotificationTime = now
                    /\ svc'.sessionStartTime = svc.sessionStartTime
                    /\ TimerRuns(svc', timers')
                    /\ last'.events = <<"notification-due">>
                    /\ last'.err = NoErr
                    /\ ls'.session = ls.session
            /\ last'.op = "skipNotification"
                 => /\ svc'.lastNotificationTime = now
                    /\ svc'.sessionStartTime = svc.sessionStartTime
                    /\ svc'.timerId = svc.timerId
                    /\ timers' = timers
                    /\ last'.err = NoErr
                    /\ ls'.session = ls.session]_vars

\* a prompt has fired while writes fail: the time in memory is the time of
\* the prompt, the stored session still has the time of the start
C25_Witness ==
  /\ quotaFull
  /\ last.op = "poll"
  /\ Fired(last)
  /\ TimerRuns(svc, timers)
  /\ svc.lastNotificationTime = now
  /\ svc.sessionStartTime < now
  /\ ls.session = SessionOf(svc.sessionStartTime, svc.sessionStartTime)

\* the activities in the text under timetracker_activities
StoredActivities(l) == IF l.activities = None THEN <<>> ELSE l.activities[1]

\* C26: after an addActivity that returned an activity, the stored list is
\* the list stored before with the new activity appended, also when the
\* stored text could not be read.
C26_AppendOnly ==
  [][(last'.op = "addActivity" /\ last'.act # None)
       => StoredActivities(ls')
            = Append(StoredActivities(ls), SerializeActivity(last'.act[1]))]_vars

\* C27: the notification interval of the stored settings is at least
\* MinInterval and is the interval the service uses.
C27_PersistedIntervalValid ==
  Storage_loadSettings(Here) # None
    => /\ Storage_loadSettings(Here)[1].notificationInterval >= MinInterval
       /\ Storage_loadSettings(Here)[1].notificationInterval
            = svc.notificationInterval

\* C28: an activity recorded in a session starts no earlier than the
\* session did.
C28_StartsInSession ==
  [][(last'.act # None /\ svc.sessionStartTime # NULL)
       => last'.act[1].startTime >= svc.sessionStartTime]_vars

\* C29: the poll timer runs exactly when sessionStartTime is set, and
\* exactly when lastNotificationTime is set.
C29_ActiveIffTimes ==
  /\ getSessionInfo(Here).isActive <=> getSessionInfo(Here).startTime # NULL
  /\ getSessionInfo(Here).isActive
       <=> getSessionInfo(Here).lastNotificationTime # NULL
  /\ getSessionInfo(Here).isActive <=> TimerRuns(svc, timers)

\* C30: a startTracking on a page that recovered a stored session keeps the
\* recovered sessionStartTime and lastNotificationTime, in memory and in
\* the stored session.
C30_RecoveredKept ==
  [][(/\ last'.op = "startTracking"
      /\ ~getSessionInfo(Here).isActive
      /\ svc.sessionStartTime # NULL
      /\ ls.session = SessionOf(svc.sessionStartTime, svc.lastNotificationTime))
       => /\ svc'.sessionStartTime = svc.sessionStartTime
          /\ svc'.lastNotificationTime = svc.lastNotificationTime
          /\ ls'.session = ls.session]_vars

====
